---- MODULE Spec2Model ----
(***************************************************************************)
(* Model of the dungeon-builder Lua interface of Crawl:                    *)
(*   - dlua_chunk (luadgn.cc): source / bytecode holder, binary            *)
(*     persistence, error-message rewriting;                               *)
(*   - the dgn.* bindings applied to map_def objects (luadgn.cc, mapdef.h);*)
(*   - the CLua wrapper's bookkeeping (clua.h).                            *)
(* Strings are sequences of one-character strings.                         *)
(***************************************************************************)
EXTENDS Integers, Sequences, FiniteSets, TLC

VARIABLES
    self,       \* the dlua_chunk: file, chunk, compiled, first, last, error
    outf,       \* the binary stream write() appends to and read() consumes
    written,    \* per chunk record in the stream, what write() was given
    last_op,    \* the load, load_call or read last carried out
    msg_in,       \* the error message handed to rewrite_chunk_errors
    msg,        \* rewrite_chunk_errors' argument s, rewritten in place
    rewrote,    \* "no": not called yet; else the value it returned
    original,   \* the authored (template) map_def
    resolved,   \* the map_def that resolve() copied from it
    handles,    \* the map_def pointers the running script holds
    phase,      \* "parse", then the script of the generation that runs
    template0,  \* the template as it was when resolve() ran
    clua,       \* per wrapper slot, the CLua object's fields
    lua_map,    \* lua_call_throttle::lua_map: interpreter handle -> wrapper
    running,    \* the wrapper whose script invocation is in flight, or 0
    stack,      \* the frames in flight on it, outermost first
    last_call,  \* the script invocation last attempted and its outcome
    vm,         \* the throttling state of one wrapper and of its invocation
    flood,      \* a connectivity query: grid, start, seed points and result
    map_depths,          \* map->depths of the map a script works on
    dgn_default_depths,  \* the process-wide default depth list
    last_depth_call,     \* the depth function last called and its arguments
    added,               \* the add(line, text) calls made since the last clear
    map_rows,            \* map->map: the rows of the grid a script works on
    last_dgn_call        \* the dgn function last called, its arguments and result

chunk_vars == <<self, outf, written, last_op>>
rewrite_vars == <<msg_in, msg, rewrote>>
map_vars == <<original, resolved, handles, phase, template0>>
lua_vars == <<clua, lua_map, running, stack, last_call>>
throttle_vars == <<vm>>
flood_vars == <<flood>>
depth_vars == <<map_depths, dgn_default_depths, last_depth_call>>
add_vars == <<added>>
call_vars == <<map_rows, last_dgn_call>>
dgn_vars == <<flood_vars, depth_vars, add_vars, call_vars>>
not_chunk_vars == <<rewrite_vars, map_vars, lua_vars, throttle_vars, dgn_vars>>

vars == <<chunk_vars, rewrite_vars, map_vars, lua_vars, throttle_vars, dgn_vars>>

----------------------------------------------------------------------------
(* Bounds of the chunk model. *)

\* Authored line numbers passed to add() are 1..MaxLine.
MaxLine == 2

\* add() is not taken when the accumulated source would grow past this.
MaxSrcLen == 2

\* write() is not taken when the stream would grow past this many fields
\* not yet read (a non-empty chunk takes four fields, an empty one a single one).
MaxStream == 5

----------------------------------------------------------------------------
(* Characters and strings. *)

SP == " "
NL == "\n"

IsSpace(c) == c = SP \/ c = NL

\* trimmed_string(s).empty(): s holds nothing but whitespace.
TrimmedEmpty(s) == \A k \in 1..Len(s) : IsSpace(s[k])

Take(s, n) == IF Len(s) <= n THEN s ELSE SubSeq(s, 1, n)

RECURSIVE Repeat(_, _)
Repeat(c, n) == IF n <= 0 THEN <<>> ELSE <<c>> \o Repeat(c, n - 1)

----------------------------------------------------------------------------
(* The binary stream primitives used by write() and read().  Their bodies  *)
(* are not part of the sources at hand; they follow the described format:  *)
(* a length-prefixed string whose payload is capped.                       *)

\* Cap of a chunk payload, scaled down.
LUA_CHUNK_MAX_SIZE == 5

CT_EMPTY == 0
CT_SOURCE == 1
CT_COMPILED == 2

writeByte(b) == <<"byte", b>>
writeString(s, cap) == <<"str", Take(s, cap)>>
writeStringNoCap(s) == <<"str", s>>
writeLong(n) == <<"long", n>>

readString(field, cap) == Take(field[2], cap)
readStringNoCap(field) == field[2]

----------------------------------------------------------------------------
(* The embedded engine, at its interface. *)

\* A source text the engine's loader rejects: it holds the token "!".
SyntaxOk(src) == \A k \in 1..Len(src) : src[k] # "!"

\* CLua::loadstring: 0 on success, the engine's syntax-error status (3)
\* otherwise.
loadstring(src) == IF SyntaxOk(src) THEN 0 ELSE 3

\* lua_dump of the function loadstring left on the stack: a header, the
\* body and an end mark.
Dump(src) == <<"B">> \o src \o <<"E">>

\* CLua::loadbuffer of a dumped function: 0 when the buffer is a whole dump.
loadbuffer(buf) ==
    IF Len(buf) >= 2 /\ buf[1] = "B" /\ buf[Len(buf)] = "E" THEN 0 ELSE 3

\* The text CLua leaves in CLua::error after an operation returning err.
InterpError(err) == IF err = 0 THEN <<>> ELSE <<"e">>

----------------------------------------------------------------------------
(* dlua_chunk *)

\* dlua_chunk::clear: the fields of a chunk after clear()
ClearedChunk ==
    [file |-> <<>>, chunk |-> <<>>, compiled |-> <<>>,
     first |-> -1, last |-> -1, error |-> <<>>]

\* dlua_chunk::empty
empty(c) == c.compiled = <<>> /\ TrimmedEmpty(c.chunk)

\* Nothing recorded: the last operation was none of load, load_call, read.
NoOp == [op |-> "none", ret |-> 0, dumped |-> FALSE, called |-> FALSE]

\* The load, load_call or read last carried out on the chunk: its name, the
\* value it returned, whether it ran lua_dump and whether it ran CLua::callfn.
Op(name, ret, dumped, called) ==
    [op |-> name, ret |-> ret, dumped |-> dumped, called |-> called]

\* What write() is given to serialize: empty() chunks persist nothing, the
\* others their bytecode, else their source, with file name and first line.
Persisted(c) ==
    IF empty(c) THEN [chunk |-> <<>>, compiled |-> <<>>, file |-> <<>>, first |-> -1]
    ELSE [chunk |-> IF c.compiled # <<>> THEN <<>> ELSE c.chunk,
          compiled |-> c.compiled, file |-> c.file, first |-> c.first]

\* self is a dlua_chunk after its constructor; outf is the binary stream;
\* written lists, for each chunk record in the stream, what the chunk held
\* when write() ran.
ChunkInit ==
    /\ self = ClearedChunk
    /\ outf = <<>>
    /\ written = <<>>
    /\ last_op = NoOp

\* No error message is being rewritten.
RewriteIdle ==
    /\ msg_in = <<>>
    /\ msg = <<>>
    /\ rewrote = "no"

\* dlua_chunk::set_file
set_file_result(c, s) == [c EXCEPT !.file = s]

\* add() that puts a single line break before the text of a later line.
add_result_onebreak(c, line, s) ==
    LET first1 == IF c.first = -1 THEN line ELSE c.first
        nl == IF line # c.last /\ c.last # -1 /\ c.last < line THEN 1 ELSE 0
    IN [c EXCEPT !.first = first1,
                 !.chunk = c.chunk \o Repeat(NL, nl) \o <<SP>> \o s,
                 !.last = line]

\* dlua_chunk::add
add_result(c, line, s) ==
    LET first1 == IF c.first = -1 THEN line ELSE c.first
        \* while (last++ < line) chunk += '\n', run when line != last && last != -1
        nl == IF line # c.last /\ c.last # -1 /\ c.last < line
              THEN line - c.last ELSE 0
    IN [c EXCEPT !.first = first1,
                 !.chunk = c.chunk \o Repeat(NL, nl) \o <<SP>> \o s,
                 !.last = line]

\* dlua_chunk::set_chunk
set_chunk_result(c, s) == [c EXCEPT !.chunk = s]

\* dlua_chunk::check_op
check_op(c, err) == [c EXCEPT !.error = InterpError(err)]

\* The value load() returns for an empty chunk.
LOAD_EMPTY == -1000

\* load() without the test for bytecode already held: it compiles the source
\* text again on every call.
load_result_recompile(c) ==
    IF empty(c)
    THEN [c |-> [c EXCEPT !.chunk = <<>>], ret |-> LOAD_EMPTY, dumped |-> FALSE]
    ELSE IF loadstring(c.chunk) # 0
    THEN [c |-> check_op(c, loadstring(c.chunk)),
          ret |-> loadstring(c.chunk), dumped |-> FALSE]
    ELSE [c |-> [check_op(c, 0) EXCEPT !.compiled = Dump(c.chunk), !.chunk = <<>>],
          ret |-> 0, dumped |-> TRUE]

\* load() that drops the source text the loader rejected.
load_result_dropsonfail(c) ==
    IF c.compiled # <<>>
    THEN [c |-> check_op(c, loadbuffer(c.compiled)),
          ret |-> loadbuffer(c.compiled), dumped |-> FALSE]
    ELSE IF empty(c)
    THEN [c |-> [c EXCEPT !.chunk = <<>>], ret |-> LOAD_EMPTY, dumped |-> FALSE]
    ELSE IF loadstring(c.chunk) # 0
    THEN [c |-> [check_op(c, loadstring(c.chunk)) EXCEPT !.chunk = <<>>],
          ret |-> loadstring(c.chunk), dumped |-> FALSE]
    ELSE [c |-> [check_op(c, 0) EXCEPT !.compiled = Dump(c.chunk), !.chunk = <<>>],
          ret |-> 0, dumped |-> TRUE]

\* dlua_chunk::load.  lua_dump returns the status of its writer, and
\* dlua_compiled_chunk_writer always returns 0, so the dump of the function
\* loadstring has just left on the stack succeeds.
load_result(c) ==
    IF c.compiled # <<>>
    THEN [c |-> check_op(c, loadbuffer(c.compiled)),
          ret |-> loadbuffer(c.compiled), dumped |-> FALSE]
    ELSE IF empty(c)
    THEN [c |-> [c EXCEPT !.chunk = <<>>], ret |-> LOAD_EMPTY, dumped |-> FALSE]
    ELSE IF loadstring(c.chunk) # 0
    THEN [c |-> check_op(c, loadstring(c.chunk)),
          ret |-> loadstring(c.chunk), dumped |-> FALSE]
    ELSE [c |-> [check_op(c, 0) EXCEPT !.compiled = Dump(c.chunk), !.chunk = <<>>],
          ret |-> 0, dumped |-> TRUE]

\* dlua_chunk::load_call.  fnOk is the result of CLua::callfn.
load_call_result(c, fnOk) ==
    LET r == load_result(c)
    IN IF r.ret = LOAD_EMPTY
       THEN [c |-> r.c, ret |-> 0, dumped |-> r.dumped, called |-> FALSE]
       ELSE IF r.ret # 0
       THEN [c |-> r.c, ret |-> r.ret, dumped |-> r.dumped, called |-> FALSE]
       ELSE [c |-> check_op(r.c, IF fnOk THEN 0 ELSE 1),
             ret |-> IF fnOk THEN 0 ELSE 1, dumped |-> r.dumped, called |-> TRUE]

\* dlua_chunk::write: the fields appended to the stream.
write_fields(c) ==
    IF empty(c)
    THEN <<writeByte(CT_EMPTY)>>
    ELSE (IF c.compiled # <<>>
          THEN <<writeByte(CT_COMPILED), writeString(c.compiled, LUA_CHUNK_MAX_SIZE)>>
          ELSE <<writeByte(CT_SOURCE), writeString(c.chunk, LUA_CHUNK_MAX_SIZE)>>)
         \o <<writeStringNoCap(c.file), writeLong(c.first)>>

\* read() that consumes a source payload and does not store it in chunk.
read_result_dropsource(inf) ==
    LET type == inf[1][2]
    IN IF type = CT_EMPTY
       THEN [c |-> ClearedChunk, rest |-> Tail(inf)]
       ELSE [c |-> [ClearedChunk EXCEPT
                       !.compiled = IF type = CT_COMPILED
                                    THEN readString(inf[2], LUA_CHUNK_MAX_SIZE) ELSE <<>>,
                       !.file = readStringNoCap(inf[3]),
                       !.first = inf[4][2]],
             rest |-> SubSeq(inf, 5, Len(inf))]

\* read() that consumes the line offset and does not store it in first.
read_result_nofirst(inf) ==
    LET type == inf[1][2]
    IN IF type = CT_EMPTY
       THEN [c |-> ClearedChunk, rest |-> Tail(inf)]
       ELSE [c |-> [ClearedChunk EXCEPT
                       !.chunk = IF type = CT_SOURCE
                                 THEN readString(inf[2], LUA_CHUNK_MAX_SIZE) ELSE <<>>,
                       !.compiled = IF type = CT_COMPILED
                                    THEN readString(inf[2], LUA_CHUNK_MAX_SIZE) ELSE <<>>,
                       !.file = readStringNoCap(inf[3])],
             rest |-> SubSeq(inf, 5, Len(inf))]

\* dlua_chunk::read from the stream inf: the chunk read and the rest of
\* the stream.
read_result(inf) ==
    LET type == inf[1][2]
    IN IF type = CT_EMPTY
       THEN [c |-> ClearedChunk, rest |-> Tail(inf)]
       ELSE [c |-> [ClearedChunk EXCEPT
                       !.chunk = IF type = CT_SOURCE
                                 THEN readString(inf[2], LUA_CHUNK_MAX_SIZE) ELSE <<>>,
                       !.compiled = IF type = CT_COMPILED
                                    THEN readString(inf[2], LUA_CHUNK_MAX_SIZE) ELSE <<>>,
                       !.file = readStringNoCap(inf[3]),
                       !.first = inf[4][2]],
             rest |-> SubSeq(inf, 5, Len(inf))]

----------------------------------------------------------------------------
(* map_def and the dgn.* bindings that act on it. *)

\* A null map_def pointer.
NULL == "null"

\* The map_def fields the bindings below read and write.  A constructed
\* map_def has no tags, no place, the default weight and no original.
EmptyMap == [tags |-> <<>>, place |-> <<>>, chance |-> 10, original |-> NULL]

\* trimmed_string
RECURSIVE TrimLeft(_)
TrimLeft(str) ==
    IF str # <<>> /\ IsSpace(Head(str)) THEN TrimLeft(Tail(str)) ELSE str

RECURSIVE TrimRight(_)
TrimRight(str) ==
    IF str # <<>> /\ IsSpace(str[Len(str)])
    THEN TrimRight(SubSeq(str, 1, Len(str) - 1)) ELSE str

trimmed_string(str) == TrimRight(TrimLeft(str))

\* A Lua argument: absent (beyond lua_gettop), nil, or a value.
ArgAbsent == [k |-> "absent"]
ArgNil == [k |-> "nil"]
ArgStr(v) == [k |-> "string", str |-> v]
ArgInt(n) == [k |-> "number", num |-> n]

\* dgn_tags(map, arg): the map_def afterwards.
dgn_tags_result(m, arg) ==
    IF arg.k = "absent" THEN m
    ELSE IF arg.k = "nil" THEN [m EXCEPT !.tags = <<>>]
    ELSE [m EXCEPT !.tags = m.tags \o <<SP>> \o trimmed_string(arg.str) \o <<SP>>]

\* dgn_place(map, arg): the map_def afterwards.
dgn_place_result(m, arg) ==
    IF arg.k = "absent" THEN m
    ELSE IF arg.k = "nil" THEN [m EXCEPT !.place = <<>>]
    ELSE [m EXCEPT !.place = arg.str]

\* dgn_weight(map, arg): the map_def afterwards.  lua_isnil is false of an
\* absent argument, and luaL_checkint then raises an error.
dgn_weight_result(m, arg) ==
    IF arg.k = "number" THEN [m EXCEPT !.chance = arg.num] ELSE m

\* What a dgn function hands back to the script: values pushed with PLUARET,
\* nothing at all (return 0), or an error raised by luaL_error / luaL_check*.
RetString(v) == [k |-> "string", str |-> v]
RetNumber(n) == [k |-> "number", num |-> n]
RetTrue == [k |-> "boolean"]
RetTable(rows) == [k |-> "table", rows |-> rows]
RetNothing == [k |-> "nothing"]
RetError == [k |-> "error"]

\* dgn_tags(map, arg): PLUARET(string, map->tags).
dgn_tags_ret(m, arg) == RetString(dgn_tags_result(m, arg).tags)

\* dgn_place(map, arg): PLUARET(string, map->place).
dgn_place_ret(m, arg) == RetString(dgn_place_result(m, arg).place)

\* dgn_weight(map, arg): the test is !lua_isnil(ls, 2), which holds of an
\* absent argument (its type is LUA_TNONE), so luaL_checkint(ls, 2) runs on
\* everything but nil and raises an error on everything but a number.
dgn_weight_ret(m, arg) ==
    IF arg.k = "nil" \/ arg.k = "number"
    THEN RetNumber(dgn_weight_result(m, arg).chance)
    ELSE RetError

\* A call of a dgn function as a script sees it.
DgnCall(fn, a2, a3, ret) == [fn |-> fn, a2 |-> a2, a3 |-> a3, ret |-> ret]

\* The map_def a handle points to.
Deref(h, orig, res) == IF h = "original" THEN orig ELSE res

\* map_def::resolve: an independent copy that records where it came from.
resolve_result(m) == [m EXCEPT !.original = "original"]

\* The parser runs the definition's directives with the template as map.
MapInit ==
    /\ original = EmptyMap
    /\ resolved = EmptyMap
    /\ handles = {"original"}
    /\ phase = "parse"
    /\ template0 = EmptyMap

----------------------------------------------------------------------------
(* CLua, the wrapper of an interpreter, and lua_call_throttle's registry.  *)
(* clua.h declares the fields and operations; what the operations do       *)
(* follows the description of the wrapper's policy.  The registry is a     *)
(* private static member of lua_call_throttle, the guard a script          *)
(* invocation holds over a CLua, so only the guard's constructor and       *)
(* destructor insert and erase entries.                                    *)

\* Wrapper slots and the interpreter handles (lua_State *) lua_open hands out.
Wrappers == {1, 2}
Handles == {"L1", "L2"}

\* The configured ceilings max_mixed_call_depth and max_lua_call_depth.
MaxMixedCallDepth == 1
MaxLuaCallDepth == 1

\* No wrapper: a null CLua *.
NoWrapper == 0

\* A slot no CLua has been constructed in yet.
Unborn ==
    [life |-> "unborn", state |-> NULL, shutting_down |-> FALSE,
     mixed_call_depth |-> 0, lua_call_depth |-> 0]

\* CLua::CLua: a wrapper owning the fresh interpreter handle h.
NewCLua(h) ==
    [life |-> "alive", state |-> h, shutting_down |-> FALSE,
     mixed_call_depth |-> 0, lua_call_depth |-> 0]

\* Registry: insert on construction, erase on destruction.
registry_insert(map, h, w) == [map EXCEPT ![h] = w]

registry_erase_none(map, h) == map

registry_erase(map, h) == [map EXCEPT ![h] = NoWrapper]

\* lua_call_throttle::lua_call_throttle over wrapper w, whose fields are c:
\* the outermost guard registers the wrapper.
throttle_enter(map, c, w) ==
    IF c.mixed_call_depth = 0 THEN registry_insert(map, c.state, w) ELSE map

\* lua_call_throttle::~lua_call_throttle, c being the wrapper's fields once
\* the guard's invocation is off the stack: the outermost guard unregisters.
throttle_leave(map, c) ==
    IF c.mixed_call_depth = 0 THEN registry_erase(map, c.state) ELSE map

\* lua_call_throttle::find_clua
find_clua(map, ls) == map[ls]

\* mixed_call_depth or lua_call_depth exceeds its ceiling.
DepthExceeded(c) ==
    \/ c.mixed_call_depth > MaxMixedCallDepth
    \/ c.lua_call_depth > MaxLuaCallDepth

invoke_outcome_nodepth(c) ==
    IF c.shutting_down THEN "ShuttingDown" ELSE "executed"

invoke_outcome_noshutdown(c) ==
    IF DepthExceeded(c) THEN "StackOverflow" ELSE "executed"

\* What a script invocation (callfn, callbooleanfn, runhook, execstring,
\* execfile) on wrapper c does: short-circuit when shutting down, fail with
\* a stack overflow when a depth exceeds its ceiling, execute otherwise.
invoke_outcome(c) ==
    IF c.shutting_down THEN "ShuttingDown"
    ELSE IF DepthExceeded(c) THEN "StackOverflow"
    ELSE "executed"

\* What a call of a script function by the running script does.
lua_call_outcome(c) ==
    IF DepthExceeded(c) THEN "StackOverflow" ELSE "executed"

NoCall == [w |-> NoWrapper, via |-> "none", outcome |-> "none"]
Call(w, via, outcome) == [w |-> w, via |-> via, outcome |-> outcome]

\* The frames left when an error unwinds to the innermost invocation's
\* protected call, which then returns failure.
RECURSIVE Unwind(_)
Unwind(st) ==
    IF st = <<>> THEN <<>>
    ELSE IF st[Len(st)] = "mixed" THEN SubSeq(st, 1, Len(st) - 1)
    ELSE Unwind(SubSeq(st, 1, Len(st) - 1))

CountOf(st, kind) == Cardinality({ k \in 1..Len(st) : st[k] = kind })

\* The wrapper's depth counters brought in line with the frames in flight.
WithDepths(c, st) ==
    [c EXCEPT !.mixed_call_depth = CountOf(st, "mixed"),
              !.lua_call_depth = CountOf(st, "lua")]

\* The configured throttle_unit_lines: the executed units between two runs
\* of the throttling hook.
ThrottleUnitLines == 2

MAX_THROTTLE_SLEEPS == 100

\* A wrapper with no invocation running.
IdleVM(managed) ==
    [managed_vm |-> managed, n_throttle_sleeps |-> 0, units |-> 0,
     run |-> "idle", result |-> "none"]

init_throttle_noreset(v) ==
    [v EXCEPT !.units = 0, !.run = "running", !.result = "none"]

\* CLua::init_throttle, at the start of an invocation.
init_throttle(v) ==
    [v EXCEPT !.n_throttle_sleeps = 0, !.units = 0,
              !.run = "running", !.result = "none"]

throttle_hook_noabort(v) ==
    [v EXCEPT !.units = 0,
              !.n_throttle_sleeps =
                  IF @ < MAX_THROTTLE_SLEEPS THEN @ + 1 ELSE @]

\* The hook, run when the unit count crosses throttle_unit_lines: the wrapper
\* yields once, and aborts the invocation once the yields reach the maximum.
throttle_hook(v) ==
    IF v.n_throttle_sleeps + 1 >= MAX_THROTTLE_SLEEPS
    THEN [v EXCEPT !.units = 0, !.n_throttle_sleeps = MAX_THROTTLE_SLEEPS,
                   !.run = "idle", !.result = "Throttled"]
    ELSE [v EXCEPT !.units = 0, !.n_throttle_sleeps = @ + 1]

\* The running script executes one unit.
step_result(v) ==
    IF v.units + 1 < ThrottleUnitLines THEN [v EXCEPT !.units = @ + 1]
    ELSE IF v.managed_vm THEN throttle_hook(v)
    ELSE [v EXCEPT !.units = 0]

ThrottleIdle == vm = IdleVM(TRUE)

----------------------------------------------------------------------------
(* dgn.depth and dgn.default_depth.                                        *)

NoDepthCall == [fn |-> "none", args |-> <<>>]

DepthIdle ==
    /\ map_depths = <<>>
    /\ dgn_default_depths = <<>>
    /\ last_depth_call = NoDepthCall

----------------------------------------------------------------------------
(* dgn.points_connected: flood_find over a map's grid, with the map's      *)
(* feature finder and bounds check as collaborators.                       *)

\* Width and height of the grid queried.
GridWidth == 3
GridHeight == 3

\* The most seed points a query passes.
MaxSeeds == 2

Cells == { <<x, y>> : x \in 0..(GridWidth - 1), y \in 0..(GridHeight - 1) }

\* The cells and the points one step outside the grid.
Around == { <<x, y>> : x \in (-1)..GridWidth, y \in (-1)..GridHeight }

FLOOR == "."
WALL == "x"

\* map_def::map_bounds_check::operator ()
map_bounds_check(c) ==
    c[1] >= 0 /\ c[1] < GridWidth /\ c[2] >= 0 /\ c[2] < GridHeight

\* map_def::map_feature_finder::operator () with the traversability test of
\* the feature found.
traversable(grid, c) == grid[c] = FLOOR

\* The orthogonal neighbours of a set of points.
Neighbours(ps) ==
    { d \in Around : \E c \in ps :
          \/ d[1] = c[1] /\ (d[2] = c[2] + 1 \/ d[2] = c[2] - 1)
          \/ d[2] = c[2] /\ (d[1] = c[1] + 1 \/ d[1] = c[1] - 1) }

pathfind_oneround(grid, frontier, visited, needed) ==
    LET next == { d \in Neighbours(frontier) :
                     /\ map_bounds_check(d)
                     /\ traversable(grid, d)
                     /\ d \notin visited }
    IN needed \ next = {}

\* The search: breadth first, a point visited at most once, stopping as soon
\* as every needed point has been reached or the frontier is exhausted.
RECURSIVE pathfind(_, _, _, _)
pathfind(grid, frontier, visited, needed) ==
    IF needed = {} THEN TRUE
    ELSE IF frontier = {} THEN FALSE
    ELSE LET next == { d \in Neighbours(frontier) :
                          /\ map_bounds_check(d)
                          /\ traversable(grid, d)
                          /\ d \notin visited }
         IN pathfind(grid, next, visited \cup next, needed \ next)

\* flood_find::points_connected_from
points_connected_from(grid, pos, needed_points) ==
    pathfind(grid, {pos}, {pos}, needed_points \ {pos})

\* dgn_points_connected(map, x, y, x1, y1, ...)
dgn_points_connected_result(grid, pos, seeds) ==
    IF seeds = {} THEN "error"
    ELSE IF points_connected_from(grid, pos, seeds) THEN "true" ELSE "false"

NoFlood == [grid |-> [c \in Cells |-> FLOOR], pos |-> <<0, 0>>,
            seeds |-> {}, result |-> "none"]

FloodIdle == flood = NoFlood

\* No add() call recorded.
AddIdle == added = <<>>

\* A grid with no row and no dgn function called.
NoDgnCall == DgnCall("none", ArgAbsent, ArgAbsent, RetNothing)

CallIdle ==
    /\ map_rows = <<>>
    /\ last_dgn_call = NoDgnCall

DgnIdle == FloodIdle /\ DepthIdle /\ AddIdle /\ CallIdle

LuaInit ==
    /\ clua = [w \in Wrappers |-> Unborn]
    /\ lua_map = [h \in Handles |-> NoWrapper]
    /\ running = NoWrapper
    /\ stack = <<>>
    /\ last_call = NoCall

Init ==
    /\ ChunkInit
    /\ RewriteIdle
    /\ MapInit
    /\ LuaInit
    /\ ThrottleIdle
    /\ DgnIdle

----------------------------------------------------------------------------
(* Inputs. *)

\* Texts passed to add().
AddTexts == { <<"a">> }

\* Texts passed to set_chunk(): empty, blank, good, bad, one whose dump is
\* longer than the payload cap, and one that is blank up to the cap.
LongText == Repeat("a", LUA_CHUNK_MAX_SIZE)
BlankLongText == Repeat(SP, LUA_CHUNK_MAX_SIZE) \o <<"a">>
ChunkTexts == { <<>>, <<SP>>, <<"!">>, LongText, BlankLongText }

FileNames == { <<>>, <<"f">> }

----------------------------------------------------------------------------
(* Actions of the chunk model.  A dlua_chunk differs from another only by  *)
(* its state, so the chunk read() fills is the model's chunk in whatever   *)
(* state the operations since write() have left it.                        *)

clear ==
    /\ self' = ClearedChunk
    /\ last_op' = NoOp
    /\ UNCHANGED <<outf, written, not_chunk_vars>>

set_file ==
    \E s \in FileNames :
        /\ self' = set_file_result(self, s)
        /\ last_op' = NoOp
        /\ UNCHANGED <<outf, written, not_chunk_vars>>

add ==
    \E line \in 1..MaxLine, s \in AddTexts :
        /\ Len(add_result(self, line, s).chunk) <= MaxSrcLen
        /\ self' = add_result(self, line, s)
        /\ last_op' = NoOp
        /\ UNCHANGED <<outf, written, not_chunk_vars>>

set_chunk ==
    \E s \in ChunkTexts :
        /\ self' = set_chunk_result(self, s)
        /\ last_op' = NoOp
        /\ UNCHANGED <<outf, written, not_chunk_vars>>

load ==
    LET r == load_result(self)
    IN /\ self' = r.c
       /\ last_op' = Op("load", r.ret, r.dumped, FALSE)
       /\ UNCHANGED <<outf, written, not_chunk_vars>>

load_call ==
    \E fnOk \in BOOLEAN :
        LET r == load_call_result(self, fnOk)
        IN /\ self' = r.c
           /\ last_op' = Op("load_call", r.ret, r.dumped, r.called)
           /\ UNCHANGED <<outf, written, not_chunk_vars>>

write ==
    /\ Len(outf) + Len(write_fields(self)) <= MaxStream
    /\ outf' = outf \o write_fields(self)
    /\ written' = Append(written, Persisted(self))
    /\ last_op' = NoOp
    /\ UNCHANGED <<self, not_chunk_vars>>

read ==
    /\ outf # <<>>
    /\ self' = read_result(outf).c
    /\ outf' = read_result(outf).rest
    /\ written' = Tail(written)
    /\ last_op' = Op("read", 0, FALSE, FALSE)
    /\ UNCHANGED not_chunk_vars

Next ==
    \/ clear
    \/ set_file
    \/ add
    \/ set_chunk
    \/ load
    \/ load_call
    \/ write
    \/ read

Spec == Init /\ [][Next]_vars

----------------------------------------------------------------------------
(* Properties of the chunk model. *)

\* C1: in every reachable state of a chunk the source text and the compiled
\* bytecode are never both non-empty.
C1_SourceAndCompiledExclusive ==
    ~(self.chunk # <<>> /\ self.compiled # <<>>)

\* The load inside the load or load_call just carried out succeeded.
LoadSucceeded(o) ==
    \/ o.op = "load" /\ o.ret = 0
    \/ o.op = "load_call" /\ o.called

\* C2: a successful load of a chunk in Source state leaves it Compiled
\* (bytecode non-empty, source text empty), and a load of a chunk that holds
\* bytecode leaves the bytecode unchanged and does not run the compiler.
C2_CompileOnceMemoized ==
    [][ last_op'.op \in {"load", "load_call"} =>
          /\ self.compiled # <<>> =>
                self'.compiled = self.compiled /\ ~last_op'.dumped
          /\ (self.compiled = <<>> /\ ~empty(self) /\ LoadSucceeded(last_op')) =>
                self'.compiled # <<>> /\ self'.chunk = <<>> /\ last_op'.dumped
      ]_vars

\* A load has succeeded on a chunk that already held bytecode, without
\* running the compiler.
C2_Witness ==
    /\ last_op.op = "load"
    /\ last_op.ret = 0
    /\ ~last_op.dumped
    /\ self.compiled # <<>>

\* C18: when the loader rejects the source text of a chunk in Source state,
\* load and load_call return the engine's non-zero error code, record the
\* engine's error text, leave the source text and every other field as
\* they were, leave compiled empty, dump nothing and call no function.
C18_FailedLoadKeepsChunk ==
    [][ (/\ last_op'.op \in {"load", "load_call"}
         /\ self.compiled = <<>>
         /\ ~empty(self)
         /\ loadstring(self.chunk) # 0) =>
            /\ last_op'.ret = loadstring(self.chunk)
            /\ last_op'.ret # 0
            /\ ~last_op'.dumped
            /\ ~last_op'.called
            /\ self' = [self EXCEPT !.error = InterpError(last_op'.ret)]
            /\ self'.error # <<>>
            /\ self'.compiled = <<>> ]_vars

\* load_call has just returned the loader's error on a chunk that keeps its
\* rejected source text.
C18_Witness ==
    /\ last_op.op = "load_call"
    /\ last_op.ret # 0
    /\ ~last_op.called
    /\ self.compiled = <<>>
    /\ ~SyntaxOk(self.chunk)
    /\ self.error # <<>>

\* The state class of a chunk: Empty, Source or Compiled.
ClassOf(c) ==
    IF c.compiled # <<>> THEN "Compiled"
    ELSE IF TrimmedEmpty(c.chunk) THEN "Empty"
    ELSE "Source"

\* The fields write() emits for a chunk of a class.
FieldsOf(class) == IF class = "Empty" THEN 1 ELSE 4

C3_RoundTripAnyLength ==
    [][ (last_op'.op = "read" /\ Head(written).compiled # <<>>) =>
          /\ self'.compiled = Head(written).compiled
          /\ self'.file = Head(written).file
          /\ self'.first = Head(written).first
      ]_vars

\* C3, amended: for every chunk in Compiled state whose bytecode is no longer
\* than LUA_CHUNK_MAX_SIZE, write followed by read yields a chunk with
\* identical bytecode, file name and line offset.
C3_RoundTripWithinCap ==
    [][ (/\ last_op'.op = "read"
         /\ Head(written).compiled # <<>>
         /\ Len(Head(written).compiled) <= LUA_CHUNK_MAX_SIZE) =>
          /\ self'.compiled = Head(written).compiled
          /\ self'.file = Head(written).file
          /\ self'.first = Head(written).first
      ]_vars

\* A chunk holding whole bytecode, a file name and a line offset has been
\* read back from the stream.
C3_Witness ==
    /\ last_op.op = "read"
    /\ loadbuffer(self.compiled) = 0
    /\ self.file # <<>>
    /\ self.first # -1

----------------------------------------------------------------------------
(* Error-message rewriting.  Positions are 1-based; 0 stands for npos.     *)

\* The chunk's context tag.
context == <<"C">>

\* "[string \"" + context + "\"]:", with "[" standing for the opening
\* [string " and "]" for the closing "].
contextm == <<"[">> \o context \o <<"]", ":">>

\* std::string::find(pat, from): the first position >= from where pat
\* occurs in str.
Find(str, pat, from) ==
    LET hits == { k \in from..(Len(str) - Len(pat) + 1) :
                     SubSeq(str, k, k + Len(pat) - 1) = pat }
    IN IF hits = {} THEN 0 ELSE CHOOSE k \in hits : \A j \in hits : k <= j

Contains(str, pat) == Find(str, pat, 1) # 0

\* split_string("\n", str)
RECURSIVE split_string(_)
split_string(str) ==
    LET k == Find(str, <<NL>>, 1)
    IN IF k = 0 THEN <<str>>
       ELSE <<SubSeq(str, 1, k - 1)>> \o split_string(SubSeq(str, k + 1, Len(str)))

Digits == <<"0", "1", "2", "3", "4", "5", "6", "7", "8", "9">>
IsDigit(c) == \E d \in 1..10 : Digits[d] = c
DigitVal(c) == (CHOOSE d \in 1..10 : Digits[d] = c) - 1

\* The value of the longest prefix of str made of digits.
RECURSIVE DigitsValue(_, _)
DigitsValue(str, acc) ==
    IF str = <<>> \/ ~IsDigit(Head(str)) THEN acc
    ELSE DigitsValue(Tail(str), 10 * acc + DigitVal(Head(str)))

\* atoi: leading whitespace, an optional sign, then digits; 0 when there
\* are none.
RECURSIVE atoi(_)
atoi(str) ==
    IF str = <<>> THEN 0
    ELSE IF IsSpace(Head(str)) THEN atoi(Tail(str))
    ELSE IF Head(str) = "-" THEN 0 - DigitsValue(Tail(str), 0)
    ELSE IF Head(str) = "+" THEN DigitsValue(Tail(str), 0)
    ELSE DigitsValue(str, 0)

\* make_stringf("%d", n)
RECURSIVE FormatNat(_)
FormatNat(n) ==
    IF n < 10 THEN <<Digits[n + 1]>>
    ELSE FormatNat(n \div 10) \o <<Digits[(n % 10) + 1]>>

FormatInt(n) == IF n < 0 THEN <<"-">> \o FormatNat(0 - n) ELSE FormatNat(n)

\* The name that replaces the marker: file.empty() ? context : file
ChunkName(c) == IF c.file = <<>> THEN context ELSE c.file

\* dlua_chunk::rewrite_chunk_prefix
rewrite_chunk_prefix(c, line) ==
    LET ps == Find(line, contextm, 1)
    IN IF ps = 0 THEN line
       ELSE LET lns == ps + Len(contextm)
                pe == Find(line, <<":">>, lns)
                s1 == IF pe # 0
                      THEN SubSeq(line, 1, lns - 1)
                           \o FormatInt(atoi(SubSeq(line, lns, pe - 1)) + c.first - 1)
                           \o SubSeq(line, pe, Len(line))
                      ELSE line
            IN SubSeq(s1, 1, ps - 1) \o ChunkName(c) \o <<":">>
               \o SubSeq(s1, lns, Len(s1))

\* dlua_chunk::get_chunk_prefix
get_chunk_prefix(c, sorig) ==
    LET s1 == rewrite_chunk_prefix(c, sorig)
        cpos == Find(s1, <<":">>, 1)
        cnpos == IF cpos = 0 THEN 0 ELSE Find(s1, <<":">>, cpos + 1)
    IN IF cpos = 0 \/ cnpos = 0 THEN s1 ELSE SubSeq(s1, 1, cnpos - 1)

\* The loop of rewrite_chunk_errors over lines[i .. size-1), lines 0-based:
\* lines[k + 1] here is lines[k] there.
RECURSIVE rewrite_lines(_, _, _, _, _, _)
rewrite_lines(c, lines, i, size, newmsg, wrote_prefix) ==
    IF ~(i < size) THEN newmsg
    ELSE LET st == lines[i + 1]
         IN IF Contains(st, context)
            THEN IF ~wrote_prefix
                 THEN rewrite_lines(c, lines, i + 1, size,
                                    get_chunk_prefix(c, st) \o <<":", SP>> \o newmsg,
                                    TRUE)
                 ELSE rewrite_lines(c, lines, i + 1, size,
                                    newmsg \o <<NL>> \o rewrite_chunk_prefix(c, st),
                                    TRUE)
            ELSE rewrite_lines(c, lines, i + 1, size, newmsg, wrote_prefix)

\* dlua_chunk::rewrite_chunk_errors: the rewritten s and the value returned.
rewrite_chunk_errors_result(c, str) ==
    LET dlwhere == Find(str, contextm, 1)
    IN IF dlwhere = 0 THEN [s |-> str, ret |-> FALSE]
       ELSE IF dlwhere = 1 THEN [s |-> rewrite_chunk_prefix(c, str), ret |-> TRUE]
       ELSE LET lines == split_string(str)
            IN [s |-> rewrite_lines(c, lines, 2, Len(lines) - 1, lines[1], FALSE),
                ret |-> TRUE]

----------------------------------------------------------------------------
(* Inputs of the rewriting model. *)

\* An error message has 1..MaxMsgLines lines.
MaxMsgLines == 5

\* Internal line numbers the engine reports.
EngineLines == { <<"3">>, <<"9">> }

\* A line the engine reports at internal line l of the chunk.
MarkedLine(l) == contextm \o l \o <<":", "x">>

\* The lines a message is made of: plain text, a line that starts with the
\* chunk's marker, and one that holds the marker after other text.
MsgLines ==
    { <<"x">> } \cup { MarkedLine(l) : l \in EngineLines }
                \cup { <<"y">> \o MarkedLine(<<"3">>) }

RECURSIVE JoinLines(_)
JoinLines(ls) ==
    IF Len(ls) = 1 THEN ls[1] ELSE ls[1] \o <<NL>> \o JoinLines(Tail(ls))

Messages ==
    { JoinLines(ls) : ls \in UNION { [1..n -> MsgLines] : n \in 1..MaxMsgLines } }

\* The line offsets (first) of the chunks whose errors are rewritten.
RewriteFirsts == { 1, 5 }

\* A chunk that add() has given the line offset f and set_file() the name n.
ChunkAt(f, n) == set_file_result(add_result(ClearedChunk, f, <<"a">>), n)

RewriteInit ==
    /\ self \in { ChunkAt(f, n) : f \in RewriteFirsts, n \in FileNames }
    /\ outf = <<>>
    /\ written = <<>>
    /\ last_op = NoOp
    /\ msg_in \in Messages
    /\ msg = msg_in
    /\ rewrote = "no"
    /\ MapInit
    /\ LuaInit
    /\ ThrottleIdle
    /\ DgnIdle

\* dlua_chunk::rewrite_chunk_errors(s)
rewrite_chunk_errors ==
    /\ rewrote = "no"
    /\ msg' = rewrite_chunk_errors_result(self, msg).s
    /\ rewrote' = IF rewrite_chunk_errors_result(self, msg).ret THEN "true" ELSE "false"
    /\ UNCHANGED <<chunk_vars, msg_in, map_vars, lua_vars, throttle_vars, dgn_vars>>

RewriteNext == rewrite_chunk_errors

RewriteSpec == RewriteInit /\ [][RewriteNext]_vars

----------------------------------------------------------------------------
(* Properties of the rewriting model. *)

\* The reference the rewriting is to produce for internal line l (digits):
\* the chunk's name, the authored line l + first - 1, each followed by ":".
AuthoredRef(c, l) ==
    ChunkName(c) \o <<":">> \o FormatInt(atoi(l) + c.first - 1) \o <<":">>

\* C4: an error string that contains the chunk's marker followed by L and
\* ":", at any position, is rewritten so that it references authored line
\* L + first - 1 under the chunk's name (the first occurrence is looked at).
C4_MarkerAnywhereRemapped ==
    rewrote # "no" =>
        \A l \in EngineLines :
            (/\ Contains(msg_in, contextm)
             /\ Find(msg_in, contextm \o l \o <<":">>, 1) = Find(msg_in, contextm, 1))
            => Contains(msg, AuthoredRef(self, l))

\* C5: in a message of several lines, every line that holds the chunk's
\* marker, whatever its index, is represented in the rewritten message with
\* its line number remapped.
C5_EveryMatchingLineRemapped ==
    (rewrote # "no" /\ Len(split_string(msg_in)) > 1) =>
        \A i \in 1..Len(split_string(msg_in)), l \in EngineLines :
            Contains(split_string(msg_in)[i], contextm \o l \o <<":">>)
            => Contains(msg, AuthoredRef(self, l))

----------------------------------------------------------------------------
(* The map model: a template is populated, resolve() copies it, and the    *)
(* prelude, main, validate and veto scripts run dgn.* functions on the     *)
(* map_def pointers they hold.                                             *)

\* dgn.tags() is not taken when the tag string would grow past this.
MaxTagsLen == 3

TagArgs == { ArgAbsent, ArgNil, ArgStr(<<"t">>), ArgStr(<<SP, "u">>) }
PlaceArgs == { ArgAbsent, ArgNil, ArgStr(<<"D">>) }
WeightArgs == { ArgAbsent, ArgNil, ArgInt(1) }

ScriptPhases == <<"prelude", "main", "validate", "veto">>

\* Assigning through the pointer h.
SetMap(h, m) ==
    IF h = "original"
    THEN original' = m /\ UNCHANGED resolved
    ELSE resolved' = m /\ UNCHANGED original

\* map_def::resolve, followed by dlua_set_map of the copy for its scripts.
resolve ==
    /\ phase \in {"parse", "done"}
    /\ resolved' = resolve_result(original)
    /\ template0' = original
    /\ handles' = {"resolved"}
    /\ phase' = ScriptPhases[1]
    /\ UNCHANGED <<original, chunk_vars, rewrite_vars, lua_vars, throttle_vars, dgn_vars>>

dgn_tags ==
    \E h \in handles, arg \in TagArgs :
        /\ phase # "done"
        /\ Len(dgn_tags_result(Deref(h, original, resolved), arg).tags) <= MaxTagsLen
        /\ SetMap(h, dgn_tags_result(Deref(h, original, resolved), arg))
        /\ last_dgn_call' = DgnCall("tags", arg, ArgAbsent,
                                    dgn_tags_ret(Deref(h, original, resolved), arg))
        /\ UNCHANGED <<handles, phase, template0, map_rows, chunk_vars, rewrite_vars,
                       lua_vars, throttle_vars, flood_vars, depth_vars, add_vars>>

dgn_place ==
    \E h \in handles, arg \in PlaceArgs :
        /\ phase # "done"
        /\ SetMap(h, dgn_place_result(Deref(h, original, resolved), arg))
        /\ last_dgn_call' = DgnCall("place", arg, ArgAbsent,
                                    dgn_place_ret(Deref(h, original, resolved), arg))
        /\ UNCHANGED <<handles, phase, template0, map_rows, chunk_vars, rewrite_vars,
                       lua_vars, throttle_vars, flood_vars, depth_vars, add_vars>>

dgn_weight ==
    \E h \in handles, arg \in WeightArgs :
        /\ phase # "done"
        /\ SetMap(h, dgn_weight_result(Deref(h, original, resolved), arg))
        /\ last_dgn_call' = DgnCall("weight", arg, ArgAbsent,
                                    dgn_weight_ret(Deref(h, original, resolved), arg))
        /\ UNCHANGED <<handles, phase, template0, map_rows, chunk_vars, rewrite_vars,
                       lua_vars, throttle_vars, flood_vars, depth_vars, add_vars>>

\* dgn_original_map(map): pushes map->original, or nil when it is null.
dgn_original_map ==
    \E h \in handles :
        /\ phase # "done"
        /\ handles' = IF Deref(h, original, resolved).original # NULL
                      THEN handles \cup { Deref(h, original, resolved).original }
                      ELSE handles
        /\ UNCHANGED <<original, resolved, phase, template0, chunk_vars, rewrite_vars, lua_vars, throttle_vars, dgn_vars>>

\* The running script returns; the next one of the generation starts.
end_script ==
    /\ \E k \in 1..Len(ScriptPhases) :
          /\ phase = ScriptPhases[k]
          /\ phase' = IF k < Len(ScriptPhases) THEN ScriptPhases[k + 1] ELSE "done"
    /\ UNCHANGED <<original, resolved, handles, template0, chunk_vars, rewrite_vars, lua_vars, throttle_vars, dgn_vars>>

MapNext ==
    \/ resolve
    \/ dgn_tags
    \/ dgn_place
    \/ dgn_weight
    \/ dgn_original_map
    \/ end_script

MapSpec == Init /\ [][MapNext]_vars

\* C6: between resolve() and the end of the prelude, main, validate and
\* veto scripts no field of the original map definition changes.
C6_OriginalNeverMutated ==
    phase # "parse" => original = template0

\* C20: dgn.weight(map) with only the map argument acts as a getter like
\* dgn.place(map): it returns the map's current selection weight, leaves the
\* weight unchanged and raises no error; the weight changes only when a
\* non-nil second argument is given.
C20_WeightGetter ==
    [][ last_dgn_call'.fn = "weight"
        => /\ last_dgn_call'.a2.k = "absent"
              => /\ \E h \in handles :
                        last_dgn_call'.ret
                            = RetNumber(Deref(h, original, resolved).chance)
                 /\ original' = original
                 /\ resolved' = resolved
           /\ (original'.chance # original.chance
                  \/ resolved'.chance # resolved.chance)
              => last_dgn_call'.a2.k \notin {"absent", "nil"} ]_vars

----------------------------------------------------------------------------
(* The wrapper model. *)

\* CLua::CLua
CLua_construct(w) ==
    \E h \in Handles :
        /\ clua[w].life # "alive"
        /\ \A v \in Wrappers : clua[v].life = "alive" => clua[v].state # h
        /\ clua' = [clua EXCEPT ![w] = NewCLua(h)]
        /\ last_call' = NoCall
        /\ UNCHANGED <<lua_map, running, stack, chunk_vars, rewrite_vars, map_vars, throttle_vars, dgn_vars>>

\* shutting_down is set, whether or not callbacks are in flight.
set_shutting_down(w) ==
    /\ clua[w].life = "alive"
    /\ clua' = [clua EXCEPT ![w].shutting_down = TRUE]
    /\ last_call' = NoCall
    /\ UNCHANGED <<lua_map, running, stack, chunk_vars, rewrite_vars, map_vars, throttle_vars, dgn_vars>>

\* CLua::~CLua, once no invocation on the wrapper is in flight.
CLua_destroy(w) ==
    /\ clua[w].life = "alive"
    /\ running # w
    /\ clua' = [clua EXCEPT ![w].life = "destroyed", ![w].shutting_down = TRUE]
    /\ last_call' = NoCall
    /\ UNCHANGED <<lua_map, running, stack, chunk_vars, rewrite_vars, map_vars, throttle_vars, dgn_vars>>

\* A script invocation on w: by the host when nothing is in flight, or by a
\* native function the running script called, which finds its wrapper
\* through find_clua.
invoke(w) ==
    /\ clua[w].life = "alive"
    /\ \/ running = NoWrapper
       \/ running # NoWrapper /\ find_clua(lua_map, clua[running].state) = w
    /\ last_call' = Call(w, "invoke", invoke_outcome(clua[w]))
    /\ IF invoke_outcome(clua[w]) = "executed"
       THEN /\ stack' = Append(stack, "mixed")
            /\ running' = w
            /\ clua' = [clua EXCEPT ![w] = WithDepths(clua[w], stack')]
            /\ lua_map' = throttle_enter(lua_map, clua[w], w)
       ELSE UNCHANGED <<stack, running, clua, lua_map>>
    /\ UNCHANGED <<chunk_vars, rewrite_vars, map_vars, throttle_vars, dgn_vars>>

\* The running script calls a script function.  A stack overflow is an
\* error: it unwinds to the innermost invocation, which fails.
lua_call ==
    /\ running # NoWrapper
    /\ last_call' = Call(running, "lua", lua_call_outcome(clua[running]))
    /\ stack' = IF lua_call_outcome(clua[running]) = "executed"
                THEN Append(stack, "lua") ELSE Unwind(stack)
    /\ clua' = [clua EXCEPT ![running] = WithDepths(clua[running], stack')]
    /\ running' = IF stack' = <<>> THEN NoWrapper ELSE running
    /\ lua_map' = throttle_leave(lua_map, clua'[running])
    /\ UNCHANGED <<chunk_vars, rewrite_vars, map_vars, throttle_vars, dgn_vars>>

\* The innermost frame returns.
return ==
    /\ running # NoWrapper
    /\ stack' = SubSeq(stack, 1, Len(stack) - 1)
    /\ clua' = [clua EXCEPT ![running] = WithDepths(clua[running], stack')]
    /\ running' = IF stack' = <<>> THEN NoWrapper ELSE running
    /\ lua_map' = throttle_leave(lua_map, clua'[running])
    /\ last_call' = NoCall
    /\ UNCHANGED <<chunk_vars, rewrite_vars, map_vars, throttle_vars, dgn_vars>>

LuaNext ==
    \/ \E w \in Wrappers : CLua_construct(w)
    \/ \E w \in Wrappers : set_shutting_down(w)
    \/ \E w \in Wrappers : CLua_destroy(w)
    \/ \E w \in Wrappers : invoke(w)
    \/ lua_call
    \/ return

LuaSpec == Init /\ [][LuaNext]_vars

C10_ShuttingDownShortCircuits ==
    [][ \A w \in Wrappers :
          (clua[w].life = "alive" /\ clua[w].shutting_down) =>
              /\ clua'[w].life = "alive" => clua'[w].shutting_down
              /\ (last_call'.w = w /\ last_call'.via = "invoke") =>
                     /\ last_call'.outcome = "ShuttingDown"
                     /\ stack' = stack
                     /\ clua' = clua ]_vars

\* An invocation was refused for shutting down while frames of the wrapper
\* were in flight.
C10_Witness ==
    /\ last_call.via = "invoke"
    /\ last_call.outcome = "ShuttingDown"
    /\ running = last_call.w
    /\ stack # <<>>

----------------------------------------------------------------------------
(* The throttling model: one wrapper, managed or not, and the invocation   *)
(* running on it.                                                          *)

ThrottleInit ==
    /\ ChunkInit
    /\ RewriteIdle
    /\ MapInit
    /\ LuaInit
    /\ vm \in { IdleVM(m) : m \in BOOLEAN }
    /\ DgnIdle

\* The host starts a script invocation.
start_script ==
    /\ vm.run = "idle"
    /\ vm' = init_throttle(vm)
    /\ UNCHANGED <<chunk_vars, rewrite_vars, map_vars, lua_vars, dgn_vars>>

\* The interpreter executes one unit of the running script.
script_step ==
    /\ vm.run = "running"
    /\ vm' = step_result(vm)
    /\ UNCHANGED <<chunk_vars, rewrite_vars, map_vars, lua_vars, dgn_vars>>

\* The running script finishes on its own.
script_finish ==
    /\ vm.run = "running"
    /\ vm' = [vm EXCEPT !.run = "idle", !.result = "ok"]
    /\ UNCHANGED <<chunk_vars, rewrite_vars, map_vars, lua_vars, dgn_vars>>

ThrottleNext ==
    \/ start_script
    \/ script_step
    \/ script_finish

\* The interpreter keeps executing a running script; nothing obliges the
\* script to finish.
ThrottleSpec == ThrottleInit /\ [][ThrottleNext]_vars /\ WF_vars(script_step)

\* C8: on a managed wrapper every crossing of throttle_unit_lines yields
\* once, n_throttle_sleeps never passes MAX_THROTTLE_SLEEPS, the invocation
\* whose yields reach the maximum is aborted as Throttled, and so every
\* running invocation eventually ends, finished or aborted.
C8_ThrottleBoundsInvocation ==
    /\ [](vm.managed_vm =>
            /\ vm.n_throttle_sleeps <= MAX_THROTTLE_SLEEPS
            /\ vm.n_throttle_sleeps >= MAX_THROTTLE_SLEEPS =>
                   vm.run = "idle" /\ vm.result = "Throttled")
    /\ [][ (vm.managed_vm /\ vm.run = "running" /\ vm'.result # "ok"
               /\ vm.units + 1 = ThrottleUnitLines) =>
              vm'.n_throttle_sleeps = vm.n_throttle_sleeps + 1 ]_vars
    /\ ((vm.managed_vm /\ vm.run = "running") ~> (vm.run = "idle"))

\* An invocation on a managed wrapper was aborted at the maximum of yields.
C8_Witness ==
    /\ vm.managed_vm
    /\ vm.run = "idle"
    /\ vm.result = "Throttled"
    /\ vm.n_throttle_sleeps = MAX_THROTTLE_SLEEPS

----------------------------------------------------------------------------
(* Sandbox faults: the wrapper operations and throttled execution          *)
(* together, with the allocator's failure at the memory ceiling.           *)

\* An allocation request fails at the memory ceiling; the engine raises an
\* out-of-memory error, which ends the running invocation.
out_of_memory ==
    /\ vm.run = "running"
    /\ vm' = [vm EXCEPT !.run = "idle", !.result = "OutOfMemory"]
    /\ UNCHANGED <<chunk_vars, rewrite_vars, map_vars, lua_vars, dgn_vars>>

SandboxNext ==
    \/ LuaNext
    \/ ThrottleNext
    \/ out_of_memory

SandboxSpec == ThrottleInit /\ [][SandboxNext]_vars

----------------------------------------------------------------------------
(* The connectivity model. *)

\* Points a script may pass: the cells and one point past the right edge.
Points == Cells \cup { <<GridWidth, 0>> }

SeedSets == { ss \in SUBSET Points : Cardinality(ss) <= MaxSeeds }

\* A grid, a traversable start cell and the seed points of one query.
FloodInit ==
    /\ ChunkInit
    /\ RewriteIdle
    /\ MapInit
    /\ LuaInit
    /\ ThrottleIdle
    /\ DepthIdle
    /\ AddIdle
    /\ CallIdle
    /\ \E g \in [Cells -> {FLOOR, WALL}], p \in Cells, ss \in SeedSets :
           /\ g[p] = FLOOR
           /\ flood = [grid |-> g, pos |-> p, seeds |-> ss, result |-> "none"]

dgn_points_connected ==
    /\ flood.result = "none"
    /\ flood' = [flood EXCEPT !.result =
                    dgn_points_connected_result(flood.grid, flood.pos, flood.seeds)]
    /\ UNCHANGED <<chunk_vars, rewrite_vars, map_vars, lua_vars, throttle_vars,
                   depth_vars, add_vars, call_vars>>

FloodNext == dgn_points_connected

FloodSpec == FloodInit /\ [][FloodNext]_vars

\* The cells a path of neighbouring in-bounds traversable cells joins to the
\* cells of s, in at most k steps.
RECURSIVE ReachWithin(_, _, _)
ReachWithin(grid, s, k) ==
    IF k = 0 THEN s
    ELSE ReachWithin(grid,
                     s \cup { d \in Cells : /\ grid[d] = FLOOR
                                            /\ \E c \in s :
                                                   (c[1] - d[1]) * (c[1] - d[1])
                                                 + (c[2] - d[2]) * (c[2] - d[2]) = 1 },
                     k - 1)

Reachable(grid, pos) == ReachWithin(grid, {pos}, Cardinality(Cells))

\* Some column of the grid is wall from top to bottom and lies strictly
\* between the columns of p and q.
WallColumnBetween(grid, p, q) ==
    \E x \in 0..(GridWidth - 1) :
        /\ \A y \in 0..(GridHeight - 1) : grid[<<x, y>>] = WALL
        /\ \/ p[1] < x /\ x < q[1]
           \/ q[1] < x /\ x < p[1]

\* C12: the query answers true exactly when every seed point is joined to
\* the start by a path of neighbouring in-bounds traversable cells; on a
\* grid with no wall every in-bounds seed is connected, and a seed beyond a
\* full wall column is not.
C12_ConnectedIffReachable ==
    (flood.result \in {"true", "false"}) =>
        /\ (flood.result = "true")
               = (flood.seeds \subseteq Reachable(flood.grid, flood.pos))
        /\ ((\A c \in Cells : flood.grid[c] = FLOOR) /\ flood.seeds \subseteq Cells)
               => flood.result = "true"
        /\ (\E q \in flood.seeds : WallColumnBetween(flood.grid, flood.pos, q))
               => flood.result = "false"

\* A query whose seeds lie around a wall and are all reached, the search
\* needing more than one round.
C12_Witness ==
    /\ flood.result = "true"
    /\ Cardinality(flood.seeds) = 2
    /\ \E c \in Cells : flood.grid[c] = WALL
    /\ \E q \in flood.seeds :
           (q[1] - flood.pos[1]) * (q[1] - flood.pos[1])
         + (q[2] - flood.pos[2]) * (q[2] - flood.pos[2]) > 2

----------------------------------------------------------------------------
(* The depth model: a script calls dgn.depth on its map and                *)
(* dgn.default_depth.                                                      *)

COMMA == ","

\* split_string(",", str)
RECURSIVE split_commas(_)
split_commas(str) ==
    LET k == Find(str, <<COMMA>>, 1)
    IN IF k = 0 THEN <<str>>
       ELSE <<SubSeq(str, 1, k - 1)>> \o split_commas(SubSeq(str, k + 1, Len(str)))

\* level_range::parse of a fragment naming one depth of the main dungeon.
level_range_parse(frag) ==
    [branch |-> "D", shallowest |-> atoi(frag), deepest |-> atoi(frag)]

\* The inner loop of dgn_add_depths: j stays 0, the bound is tested against
\* i and i is advanced.  Yields the default list and i as the loop leaves
\* them.
RECURSIVE add_depth_frags(_, _, _)
add_depth_frags(defaults, frags, i) ==
    IF i < Len(frags)
    THEN add_depth_frags(Append(defaults, level_range_parse(frags[1])), frags, i + 1)
    ELSE [defaults |-> defaults, i |-> i]

\* dgn_add_depths(drs, ls, s, e): st is the Lua stack, i the index reached.
\* Every range goes to dgn_default_depths, whatever drs is.
RECURSIVE dgn_add_depths(_, _, _, _)
dgn_add_depths(defaults, st, i, e) ==
    IF i > e THEN defaults
    ELSE LET r == add_depth_frags(defaults, split_commas(st[i]), i)
         IN dgn_add_depths(r.defaults, st, r.i + 1, e)

\* A nil on the Lua stack.
LuaNil == <<"nil">>

\* dgn_depth_proc(ls, dr, s), dr being map->depths (target "map") or
\* dgn_default_depths itself (target "default").  Yields both lists.
dgn_depth_proc(target, mdepths, defaults, st, s) ==
    IF Len(st) < s THEN [map |-> mdepths, default |-> defaults]
    ELSE LET cleared_map == IF target = "map" THEN <<>> ELSE mdepths
             cleared_def == IF target = "default" THEN <<>> ELSE defaults
         IN IF st[s] = LuaNil
            THEN [map |-> cleared_map, default |-> cleared_def]
            ELSE [map |-> cleared_map,
                  default |-> dgn_add_depths(cleared_def, st, s, Len(st))]

\* The most ranges either list holds.
MaxDepths == 3

\* Depth arguments: comma-separated fragments.
DepthStrings ==
    { <<"1">>, <<"2">>, <<"1", COMMA, "2">>, <<"3", COMMA, "1">>,
      <<"1", COMMA, "2", COMMA, "3">> }

\* Argument lists: none, a nil, or one or two depth strings.
DepthArgLists ==
    { <<>>, <<LuaNil>> }
        \cup { <<a>> : a \in DepthStrings }
        \cup { <<a, b>> : a, b \in DepthStrings }

\* dgn_depth(map, ...): the map is argument 1, the depths start at 2.
dgn_depth ==
    \E args \in DepthArgLists :
        LET r == dgn_depth_proc("map", map_depths, dgn_default_depths,
                                <<<<"map">>>> \o args, 2)
        IN /\ Len(r.default) <= MaxDepths
           /\ map_depths' = r.map
           /\ dgn_default_depths' = r.default
           /\ last_depth_call' = [fn |-> "depth", args |-> args]
           /\ UNCHANGED <<chunk_vars, rewrite_vars, map_vars, lua_vars,
                          throttle_vars, flood_vars, add_vars, call_vars>>

\* dgn_default_depth(...): the depths start at argument 1.
dgn_default_depth ==
    \E args \in DepthArgLists :
        LET r == dgn_depth_proc("default", map_depths, dgn_default_depths, args, 1)
        IN /\ Len(r.default) <= MaxDepths
           /\ map_depths' = r.map
           /\ dgn_default_depths' = r.default
           /\ last_depth_call' = [fn |-> "default_depth", args |-> args]
           /\ UNCHANGED <<chunk_vars, rewrite_vars, map_vars, lua_vars,
                          throttle_vars, flood_vars, add_vars, call_vars>>

\* dgn_reset_default_depth
dgn_reset_default_depth ==
    /\ dgn_default_depths' = <<>>
    /\ last_depth_call' = [fn |-> "reset_default_depth", args |-> <<>>]
    /\ UNCHANGED <<map_depths, chunk_vars, rewrite_vars, map_vars, lua_vars,
                   throttle_vars, flood_vars, add_vars, call_vars>>

\* map_def::add_depths with the default depths, as a map with no depths of
\* its own receives them.
add_depths ==
    /\ Len(map_depths) + Len(dgn_default_depths) <= MaxDepths
    /\ map_depths' = map_depths \o dgn_default_depths
    /\ last_depth_call' = [fn |-> "add_depths", args |-> <<>>]
    /\ UNCHANGED <<dgn_default_depths, chunk_vars, rewrite_vars, map_vars,
                   lua_vars, throttle_vars, flood_vars, add_vars, call_vars>>

DepthNext ==
    \/ dgn_depth
    \/ dgn_default_depth
    \/ dgn_reset_default_depth
    \/ add_depths

DepthSpec == Init /\ [][DepthNext]_vars

\* One range for every fragment of every argument, in argument order and
\* then fragment order.
RECURSIVE RangesOfFrags(_)
RangesOfFrags(frags) ==
    IF frags = <<>> THEN <<>>
    ELSE <<level_range_parse(Head(frags))>> \o RangesOfFrags(Tail(frags))

RECURSIVE RangesOfArgs(_)
RangesOfArgs(args) ==
    IF args = <<>> THEN <<>>
    ELSE RangesOfFrags(split_commas(Head(args))) \o RangesOfArgs(Tail(args))

IsDepthSetting(call) ==
    /\ call.fn \in {"depth", "default_depth"}
    /\ call.args # <<>>
    /\ call.args[1] # LuaNil

\* C13: after dgn.depth(map, a1..an) or dgn.default_depth(a1..an) the
\* target list holds exactly one range for every fragment of every argument,
\* in argument order and then fragment order.
C13_OneRangePerFragment ==
    [][ IsDepthSetting(last_depth_call') =>
          (IF last_depth_call'.fn = "depth"
           THEN map_depths' ELSE dgn_default_depths')
              = RangesOfArgs(last_depth_call'.args) ]_vars

\* C16: dgn.depth(map, ...) leaves the process-wide default depth list as
\* it was.
C16_DepthLeavesDefaultsAlone ==
    [][ last_depth_call'.fn = "depth" =>
          dgn_default_depths' = dgn_default_depths ]_vars

----------------------------------------------------------------------------
(* Accumulating a chunk's source line by line: clear() and add() alone,    *)
(* with the calls made since the clear kept in added.                      *)

\* The most add() calls after a clear, and the largest line number.
MaxAdds == 3
MaxAddLine == 3

\* Texts of a line, and one text that holds a line break.
LineTexts == { <<"a">>, <<"b">>, <<"a", NL, "b">> }

clear_chunk ==
    /\ self' = ClearedChunk
    /\ added' = <<>>
    /\ UNCHANGED <<outf, written, last_op, rewrite_vars, map_vars, lua_vars,
                   throttle_vars, flood_vars, depth_vars, call_vars>>

add_line ==
    \E line \in 1..MaxAddLine, s \in LineTexts :
        /\ Len(added) < MaxAdds
        /\ self' = add_result(self, line, s)
        /\ added' = Append(added, [line |-> line, text |-> s])
        /\ UNCHANGED <<outf, written, last_op, rewrite_vars, map_vars, lua_vars,
                       throttle_vars, flood_vars, depth_vars, call_vars>>

AddNext ==
    \/ clear_chunk
    \/ add_line

AddSpec == Init /\ [][AddNext]_vars

NonDecreasing(calls) ==
    \A k \in 1..(Len(calls) - 1) : calls[k].line <= calls[k + 1].line

SingleLineTexts(calls) ==
    \A k \in 1..Len(calls) : ~Contains(calls[k].text, <<NL>>)

CountNL(str) == Cardinality({ k \in 1..Len(str) : str[k] = NL })

\* What the chunk and the remapping owe the calls made: first is the first
\* call's line, the text holds last - first newlines, the text of a call for
\* line L is on internal line L - first + 1, and an engine reference to that
\* internal line is rewritten to L.
Aligned(c, calls) ==
    /\ c.first = calls[1].line
    /\ c.last = calls[Len(calls)].line
    /\ CountNL(c.chunk) = c.last - c.first
    /\ \A k \in 1..Len(calls) :
           LET internal == calls[k].line - c.first + 1
           IN /\ internal \in 1..Len(split_string(c.chunk))
              /\ Contains(split_string(c.chunk)[internal], <<SP>> \o calls[k].text)
              /\ rewrite_chunk_prefix(c, contextm \o FormatInt(internal) \o <<":", "x">>)
                     = ChunkName(c) \o <<":">> \o FormatInt(calls[k].line) \o <<":", "x">>

\* C17 as stated: after add() calls with non-decreasing line numbers on a
\* cleared chunk the source is aligned with the authored lines, whatever
\* the texts.
C17_AlignedAnyText ==
    (added # <<>> /\ NonDecreasing(added)) => Aligned(self, added)

\* C17, amended: after add() calls with non-decreasing line numbers and
\* texts that hold no line break, on a cleared chunk, the source is aligned
\* with the authored lines.
C17_AlignedSingleLineTexts ==
    (added # <<>> /\ NonDecreasing(added) /\ SingleLineTexts(added))
        => Aligned(self, added)

\* Three calls, two for the same line and one for a line two further on,
\* the texts single lines.
C17_Witness ==
    /\ Len(added) = 3
    /\ added[1].line = added[2].line
    /\ added[3].line = added[2].line + 2
    /\ SingleLineTexts(added)
    /\ Aligned(self, added)

----------------------------------------------------------------------------
(* dgn.map: a script reads and edits the rows of the grid (map->map).      *)
(* map_lines::add_line appends its text as a new last row and              *)
(* map_lines::clear removes every row.                                     *)

\* dgn.map is not taken when the grid would grow past this many rows.
MaxRows == 3

\* A Lua value that is neither nil, a string nor a number.
ArgBool == [k |-> "boolean"]

\* lua_isstring: true of a string and of a number, which converts to one.
lua_isstring(a) == a.k = "string" \/ a.k = "number"

\* luaL_checkstring of a value lua_isstring accepts: a number is converted
\* to its decimal text.
luaL_checkstring(a) == IF a.k = "string" THEN a.str ELSE FormatInt(a.num)

\* lines.resize(n, ""): rows cut to n, or padded with empty rows up to n.
resize(rows, n) ==
    [i \in 1..n |-> IF i <= Len(rows) THEN rows[i] ELSE <<>>]

\* lines.erase(lines.begin() + i), i counted from 0.
erase(rows, i) ==
    SubSeq(rows, 1, i) \o SubSeq(rows, i + 2, Len(rows))

\* map_lines::add_line(s): appends s verbatim as a new last row.
map_lines_add_line(rows, s) == Append(rows, s)

\* map_lines::clear(): no row is left.
map_lines_clear(rows) == <<>>

\* The rest of dgn_map once a2 is known to be neither absent, nil, a string
\* nor a number convertible to one: luaL_checkint(ls, 2) takes a number.
dgn_map_by_index(rows, a2, a3) ==
    IF a2.k # "number" THEN [rows |-> rows, ret |-> RetError]
    ELSE LET which_line == IF a2.num < 0 THEN a2.num + Len(rows) ELSE a2.num
             in_range == which_line >= 0 /\ which_line < Len(rows)
         IN  IF a3.k = "absent"
             THEN [rows |-> rows,
                   ret |-> IF in_range THEN RetString(rows[which_line + 1])
                           ELSE RetError]
             ELSE IF a3.k = "nil"
             THEN IF in_range
                  THEN [rows |-> erase(rows, which_line), ret |-> RetTrue]
                  ELSE [rows |-> rows, ret |-> RetNothing]
             ELSE IF ~lua_isstring(a3) \/ which_line < 0
             THEN [rows |-> rows, ret |-> RetError]
             ELSE IF which_line < Len(rows)
             THEN [rows |-> [rows EXCEPT ![which_line + 1] = luaL_checkstring(a3)],
                   ret |-> RetNothing]
             ELSE [rows |-> [resize(rows, which_line + 1)
                                 EXCEPT ![which_line + 1] = luaL_checkstring(a3)],
                   ret |-> RetNothing]

\* dgn_map(map, a2, a3): the rows afterwards and what the script gets back.
dgn_map_result(rows, a2, a3) ==
    IF a2.k = "absent" THEN [rows |-> rows, ret |-> RetTable(rows)]
    ELSE IF a2.k = "nil"
    THEN [rows |-> map_lines_clear(rows), ret |-> RetNothing]
    ELSE IF lua_isstring(a2)
    THEN [rows |-> map_lines_add_line(rows, luaL_checkstring(a2)),
          ret |-> RetNothing]
    ELSE dgn_map_by_index(rows, a2, a3)

\* Second and third arguments scripts pass to dgn.map.
MapArg2 == { ArgAbsent, ArgNil, ArgStr(<<"x", ".">>), ArgInt(0), ArgInt(1),
             ArgInt(0 - 1), ArgBool }
MapArg3 == { ArgAbsent, ArgNil, ArgStr(<<".">>) }

\* dgn.map(map [, a2 [, a3]])
dgn_map ==
    \E a2 \in MapArg2, a3 \in MapArg3 :
        /\ a2.k = "absent" => a3.k = "absent"
        /\ Len(dgn_map_result(map_rows, a2, a3).rows) <= MaxRows
        /\ map_rows' = dgn_map_result(map_rows, a2, a3).rows
        /\ last_dgn_call' = DgnCall("map", a2, a3,
                                    dgn_map_result(map_rows, a2, a3).ret)
        /\ UNCHANGED <<chunk_vars, rewrite_vars, map_vars, lua_vars, throttle_vars,
                       flood_vars, depth_vars, add_vars>>

RowsNext == dgn_map

RowsSpec == Init /\ [][RowsNext]_vars

\* The row a 0-based index n names in rows, negative n counted from the end.
RowIndex(rows, n) == IF n < 0 THEN n + Len(rows) ELSE n

\* C19: dgn.map(map, n) with an integer n and no third argument is a pure
\* read by row index: it returns row n (row n + height when n is negative),
\* raises an error when that index is outside 0..height-1, and in no case
\* adds, removes or changes a row of the grid.
C19_IndexReadIsPure ==
    [][ ( /\ last_dgn_call'.fn = "map"
          /\ last_dgn_call'.a2.k = "number"
          /\ last_dgn_call'.a3.k = "absent" )
        => /\ map_rows' = map_rows
           /\ LET i == RowIndex(map_rows, last_dgn_call'.a2.num)
              IN  last_dgn_call'.ret
                      = IF i >= 0 /\ i < Len(map_rows)
                        THEN RetString(map_rows[i + 1])
                        ELSE RetError ]_vars

====
